---------------------------- MODULE Spec2Model ----------------------------
(***************************************************************************)
(* Model of the IPL prediction dashboard (src/app.py): two readers with    *)
(* fallback data, the chart renderer and the four Flask handlers.          *)
(*                                                                         *)
(* Conventions.                                                            *)
(*  - A CSV cell is the text of the cell (a string).                       *)
(*  - A Python value is a record [t, s, n]: t is its type ("str", "int",   *)
(*    "float", "nan"), s its text (strings), n its number.  A float's n is *)
(*    in hundredths (0.35 is 35, 97.60 is 9760, 8.0 is 800).               *)
(*  - A dict is its insertion-ordered sequence of [key, value] items.      *)
(***************************************************************************)
EXTENDS Integers, Sequences, FiniteSets, TLC

VARIABLES
    csv,        \* data/predicted_ipl_2025_rankings.csv
    pkl,        \* model/best_model.pkl
    staticDir,  \* whether the directory static/ exists
    writable,   \* whether the process may create static/ and write into it
    files,      \* the two chart files under static/
    emptyPlotRaises, \* whether the installed seaborn raises on data with no bar
                     \* (it depends on the seaborn version; fixed per process)
    gcf,        \* pyplot's process-wide figure registry, active figure last
    op,         \* the handler that answered last (sequential server)
    resp,       \* its response
    pc,         \* threaded server: each Dashboard request's position
    loc         \* threaded server: each Dashboard request's locals

vars == <<csv, pkl, staticDir, writable, files, emptyPlotRaises, gcf, op, resp, pc, loc>>

(***************************************************************************)
(* Bounds of the model.                                                    *)
(***************************************************************************)
MaxRows == 5
MaxOpenFigs == 2
NReq == 2

Min(a, b) == IF a < b THEN a ELSE b

Range(f) == {f[i] : i \in DOMAIN f}

SeqsUpTo(S, n) == UNION {[1..k -> S] : k \in 0..n}

(***************************************************************************)
(* Python values.                                                          *)
(***************************************************************************)
Str(s) == [t |-> "str", s |-> s, n |-> 0]
Int64(n) == [t |-> "int", s |-> "", n |-> n]
Float64(h) == [t |-> "float", s |-> "", n |-> h]
Float32(h) == [t |-> "float32", s |-> "", n |-> h]
NaN == [t |-> "nan", s |-> "", n |-> 0]


(***************************************************************************)
(* pandas.read_csv with its defaults.                                      *)
(***************************************************************************)
\* The texts read_csv takes for a missing value (keep_default_na=True).
NaValues == {"", "#N/A", "N/A", "NA", "NULL", "NaN", "None", "n/a", "nan", "null"}

\* The decimal numerals of the model and the integers they denote.
Numerals == <<"0", "1", "2", "3", "4", "5", "6", "7", "8", "9", "10">>
IsNumeral(s) == \E i \in 1..Len(Numerals) : Numerals[i] = s
IntOf(s) == (CHOOSE i \in 1..Len(Numerals) : Numerals[i] = s) - 1

\* float(x): a number becomes a Python float of the same value, the text of a
\* numeral the float it denotes, and any other text raises ValueError.
FloatRaises(x) == x.t = "str" /\ ~IsNumeral(x.s)
Float(x) ==
    IF x.t = "int" THEN Float64(x.n * 100)
    ELSE IF x.t = "str" THEN Float64(IntOf(x.s) * 100)
    ELSE IF x.t = "nan" THEN NaN
    ELSE Float64(x.n)

\* Type inference of one column: all numerals -> int64; numerals and missing
\* values -> float64 with NaN; otherwise object, the texts kept and the
\* missing values NaN.
ParseColumn(cells) ==
    LET n == Len(cells)
        allInt == \A i \in 1..n : IsNumeral(cells[i])
        allNum == \A i \in 1..n : IsNumeral(cells[i]) \/ cells[i] \in NaValues
    IN  IF n > 0 /\ allInt
        THEN [i \in 1..n |-> Int64(IntOf(cells[i]))]
        ELSE IF n > 0 /\ allNum
        THEN [i \in 1..n |-> IF cells[i] \in NaValues THEN NaN
                             ELSE Float64(IntOf(cells[i]) * 100)]
        ELSE [i \in 1..n |-> IF cells[i] \in NaValues THEN NaN
                             ELSE Str(cells[i])]

\* A DataFrame: its column names in order, each column's values, its length.
DataFrame(columns, col, n) == [columns |-> columns, col |-> col, n |-> n]

Index(columns, name) == CHOOSE j \in 1..Len(columns) : columns[j] = name

\* read_csv: raises on a missing file and on content the parser rejects,
\* otherwise the header names the columns and every line below it is a row.
ReadCsvRaises(f) == f.kind # "table"
ReadCsv(f) ==
    DataFrame(f.header,
              [c \in Range(f.header) |->
                  ParseColumn([i \in 1..Len(f.rows) |-> f.rows[i][Index(f.header, c)]])],
              Len(f.rows))

\* Mutant: the slice taken with its end included, as .loc takes it.
IlocInclusive(df, k) ==
    DataFrame(df.columns,
              [c \in Range(df.columns) |-> SubSeq(df.col[c], 1, Min(k + 1, df.n))],
              Min(k + 1, df.n))

\* DataFrame.iloc[:k]
Iloc(df, k) ==
    DataFrame(df.columns,
              [c \in Range(df.columns) |-> SubSeq(df.col[c], 1, Min(k, df.n))],
              Min(k, df.n))

\* DataFrame.to_dict('records'): one dict per row, column name -> value.
ToDictRecords(df) ==
    [i \in 1..df.n |-> [c \in Range(df.columns) |-> df.col[c][i]]]

(***************************************************************************)
(* load_predictions                                                        *)
(***************************************************************************)
FallbackTeams ==
    <<"Gujarat Titans", "Royal Challengers Bangalore", "Punjab Kings",
      "Mumbai Indians", "Kolkata Knight Riders", "Rajasthan Royals",
      "Lucknow Super Giants", "Delhi Capitals", "Chennai Super Kings",
      "Sunrisers Hyderabad">>
FallbackResults ==
    <<"Winner", "Runner-up", "Second Runner-up", "Eliminator",
      "Other", "Other", "Other", "Other", "Other", "Other">>
FallbackPoints == <<10, 8, 8, 6, 6, 2, 2, 2, 0, 0>>

FallbackPredictions ==
    DataFrame(<<"Team", "Result", "points">>,
              [c \in {"Team", "Result", "points"} |->
                  IF c = "Team" THEN [i \in 1..Len(FallbackTeams) |-> Str(FallbackTeams[i])]
                  ELSE IF c = "Result" THEN [i \in 1..Len(FallbackResults) |-> Str(FallbackResults[i])]
                  ELSE [i \in 1..Len(FallbackPoints) |-> Int64(FallbackPoints[i])]],
              Len(FallbackTeams))

\* The result of a call: raised tells whether an exception left the call,
\* value is what it returned (or, for a call that raised, what it left behind).
Returned(v) == [raised |-> FALSE, value |-> v]
Raise(v) == [raised |-> TRUE, value |-> v]

\* Mutant: except FileNotFoundError instead of except Exception.
LoadPredictionsCatchesMissingOnly(f) ==
    IF f.kind = "absent" THEN Returned(FallbackPredictions)
    ELSE IF ReadCsvRaises(f) THEN Raise(<<>>)
    ELSE Returned(ReadCsv(f))

\* try: return pd.read_csv(...)  except Exception: return the fallback frame.
LoadPredictions(f) ==
    IF ReadCsvRaises(f) THEN Returned(FallbackPredictions) ELSE Returned(ReadCsv(f))



(***************************************************************************)
(* load_model_metrics                                                      *)
(***************************************************************************)
Features ==
    <<"batting_strength", "bowling_strength", "consistency",
      "historical_win_rate", "head_to_head_win_rate", "venue_win_rate">>

Item(k, v) == [key |-> k, value |-> v]

FallbackImportance ==
    <<Item("batting_strength", Float64(35)), Item("bowling_strength", Float64(25)),
      Item("consistency", Float64(15)), Item("historical_win_rate", Float64(10)),
      Item("head_to_head_win_rate", Float64(10)), Item("venue_win_rate", Float64(5))>>

Metrics(importance) ==
    [best_model |-> "XGBoost", accuracy |-> Float64(9760), feature_importance |-> importance]

\* {feature: float(importance) for feature, importance in zip(features, vector)}:
\* zip stops at the shorter of the two, and only the zipped elements are cast.
ZipLen(vector) == Min(Len(Features), Len(vector))

\* Mutant: the names zipped in alphabetical order, zip(sorted(features), vector).
ImportanceDictSorted(vector) ==
    LET sorted == <<"batting_strength", "bowling_strength", "consistency",
                    "head_to_head_win_rate", "historical_win_rate", "venue_win_rate">>
    IN  [i \in 1..ZipLen(vector) |-> Item(sorted[i], Float(vector[i]))]

ImportanceDict(vector) == [i \in 1..ZipLen(vector) |-> Item(Features[i], Float(vector[i]))]

\* joblib.load raises on a missing or unreadable artifact, the attribute
\* access on an object without feature_importances_, float() on an element
\* that is no number.
LoadModelRaises(p) ==
    \/ p.kind # "object"
    \/ ~p.hasFI
    \/ \E i \in 1..ZipLen(p.fi) : FloatRaises(p.fi[i])

\* Mutant: except FileNotFoundError instead of except Exception.
LoadModelMetricsCatchesMissingOnly(p) ==
    IF p.kind = "absent" THEN Returned(Metrics(FallbackImportance))
    ELSE IF LoadModelRaises(p) THEN Raise(<<>>)
    ELSE Returned(Metrics(ImportanceDict(p.fi)))

\* try: ... return {...}  except Exception: return the fallback record.
LoadModelMetrics(p) ==
    IF LoadModelRaises(p) THEN Returned(Metrics(FallbackImportance))
    ELSE Returned(Metrics(ImportanceDict(p.fi)))

(***************************************************************************)
(* matplotlib.pyplot: the figure registry is one per process.  plt.figure  *)
(* registers a new figure and makes it the active one; every other pyplot  *)
(* call acts on the active figure (creating one when there is none);       *)
(* plt.close() removes the active figure, the one before it becoming       *)
(* active.  A figure is what has been drawn on it: a set of marks.         *)
(***************************************************************************)
Mark(by, what, bars) == [by |-> by, what |-> what, bars |-> bars]
Bar(label, ys, color) == [label |-> label, ys |-> ys, color |-> color]

NextNum(g) ==
    IF g = <<>> THEN 1
    ELSE 1 + (CHOOSE m \in {g[i].num : i \in 1..Len(g)} :
                 \A i \in 1..Len(g) : g[i].num <= m)

PltFigure(g) == Append(g, [num |-> NextNum(g), marks |-> {}])
PltGcf(g) == IF g = <<>> THEN PltFigure(g) ELSE g
PltDraw(g, mark) == LET h == PltGcf(g) IN [h EXCEPT ![Len(h)].marks = @ \cup {mark}]
PltClose(g) == IF g = <<>> THEN g ELSE SubSeq(g, 1, Len(g) - 1)
\* What savefig renders: the active figure as it is now.
PltRender(g) == LET h == PltGcf(g) IN h[Len(h)].marks

(***************************************************************************)
(* The two charts.                                                         *)
(***************************************************************************)
Palette ==
    <<"gold", "silver", "#cd7f32", "purple", "#1f77b4", "#1f77b4",
      "#1f77b4", "#1f77b4", "#1f77b4", "#1f77b4">>

\* The distinct elements of a sequence in the order of their first occurrence.
Unique(seq) ==
    LET F[i \in 0..Len(seq)] ==
            IF i = 0 THEN <<>>
            ELSE IF seq[i] \in Range(F[i - 1]) THEN F[i - 1]
            ELSE Append(F[i - 1], seq[i])
    IN  F[Len(seq)]

NotMissing(v) == v.t # "nan"

\* The x categories of sns.barplot(x='Team', ...): the teams in the order of the
\* rows, each once; a row whose team is missing is left out.
Categories(df) == Unique(SelectSeq(df.col["Team"], NotMissing))

\* sns.barplot(x='Team', y='points', data=..., palette=...): a ValueError when
\* the frame lacks either column; one bar per team, holding that team's points,
\* coloured by the palette, which is cycled past its tenth entry.
PointsBars(df) ==
    LET cats == Categories(df)
    IN  [i \in 1..Len(cats) |->
            Bar(cats[i],
                LET Of(j) == df.col["Team"][j] = cats[i]
                    rows == SelectSeq([j \in 1..df.n |-> j], Of)
                IN  [k \in 1..Len(rows) |-> df.col["points"][rows[k]]],
                Palette[((i - 1) % Len(Palette)) + 1])]

PointsBarplotRaises(df, raisesOnEmpty) ==
    \/ "Team" \notin Range(df.columns)
    \/ "points" \notin Range(df.columns)
    \/ raisesOnEmpty /\ Categories(df) = <<>>

\* sns.barplot(x=values, y=features): one horizontal bar per dict item.
ImportanceBars(importance) ==
    [i \in 1..Len(importance) |->
        Bar(Str(importance[i].key), <<importance[i].value>>, "default")]

ImportanceBarplotRaises(importance, raisesOnEmpty) ==
    raisesOnEmpty /\ importance = <<>>

PointsTitle == "Predicted IPL 2025 Team Points"
ImportanceTitle == "Feature Importance in Prediction Model"

\* The marks of a finished chart of each kind drawn by request r.
PointsChart(r, df) ==
    {Mark(r, "bars:points", PointsBars(df)), Mark(r, PointsTitle, <<>>),
     Mark(r, "xticks:rotation=45", <<>>)}
ImportanceChart(r, importance) ==
    {Mark(r, "bars:importance", ImportanceBars(importance)),
     Mark(r, ImportanceTitle, <<>>)}

(***************************************************************************)
(* The chart files.  savefig opens the path for writing, which empties it, *)
(* and writes the encoded image in pieces: two chunks here.                *)
(***************************************************************************)
TeamPoints == "static/team_points.png"
FeatureImportance == "static/feature_importance.png"
ChartFiles == {TeamPoints, FeatureImportance}

NoChunk == [written |-> FALSE, image |-> {}]
Chunk(image) == [written |-> TRUE, image |-> image]
NoFile == [exists |-> FALSE, chunks |-> <<NoChunk, NoChunk>>]
Truncated == [exists |-> TRUE, chunks |-> <<NoChunk, NoChunk>>]
WholeFile(image) == [exists |-> TRUE, chunks |-> <<Chunk(image), Chunk(image)>>]

\* A whole image file: every chunk written, all of one image.
IsWhole(f) == f.exists /\ f.chunks[1].written /\ f.chunks[2] = f.chunks[1]

(***************************************************************************)
(* generate_visualizations, run by request r on the world w = [staticDir,  *)
(* files, gcf] without interruption.  TryGenerate is the body of the try   *)
(* block: it raises at the first failing call and leaves behind what the   *)
(* calls before it did (a figure opened and not closed stays registered).  *)
(***************************************************************************)
DrawPointsChart(g, r, df) ==
    PltDraw(PltDraw(PltDraw(g, Mark(r, "bars:points", PointsBars(df))),
                    Mark(r, PointsTitle, <<>>)),
            Mark(r, "xticks:rotation=45", <<>>))

DrawImportanceChart(g, r, importance) ==
    PltDraw(PltDraw(g, Mark(r, "bars:importance", ImportanceBars(importance))),
            Mark(r, ImportanceTitle, <<>>))

\* Mutant: the directory is never created.
EnsureStaticMissing(canWrite, w) == Returned(w)

\* if not os.path.exists('static'): os.makedirs('static')
EnsureStatic(canWrite, w) ==
    IF w.staticDir THEN Returned(w)
    ELSE IF ~canWrite THEN Raise(w)
    ELSE Returned([w EXCEPT !.staticDir = TRUE])

\* plt.savefig(name): the active figure, rendered and written to the file; an
\* OSError when the directory is missing or may not be written.
SaveFig(name, canWrite, w) ==
    IF ~w.staticDir \/ ~canWrite THEN Raise(w)
    ELSE Returned([w EXCEPT !.files[name] = WholeFile(PltRender(w.gcf)),
                            !.gcf = PltGcf(w.gcf)])

CloseFig(w) == [w EXCEPT !.gcf = PltClose(w.gcf)]

TryGenerate(r, f, p, canWrite, raisesOnEmpty, w) ==
    LET dir == EnsureStatic(canWrite, w)
        w1 == dir.value
        pred == LoadPredictions(f)
        g1 == PltFigure(w1.gcf)
        g2 == DrawPointsChart(g1, r, pred.value)
        save1 == SaveFig(TeamPoints, canWrite, [w1 EXCEPT !.gcf = g2])
        w2 == CloseFig(save1.value)
        met == LoadModelMetrics(p)
        g3 == PltFigure(w2.gcf)
        g4 == DrawImportanceChart(g3, r, met.value.feature_importance)
        save2 == SaveFig(FeatureImportance, canWrite, [w2 EXCEPT !.gcf = g4])
    IN  IF dir.raised THEN Raise(w)                                   \* os.makedirs
        ELSE IF pred.raised THEN Raise(w1)
        ELSE IF PointsBarplotRaises(pred.value, raisesOnEmpty)
        THEN Raise([w1 EXCEPT !.gcf = g1])                            \* sns.barplot
        ELSE IF save1.raised THEN save1                               \* plt.savefig
        ELSE IF met.raised THEN Raise(w2)
        ELSE IF ImportanceBarplotRaises(met.value.feature_importance, raisesOnEmpty)
        THEN Raise([w2 EXCEPT !.gcf = g3])                            \* sns.barplot
        ELSE IF save2.raised THEN save2                               \* plt.savefig
        ELSE Returned(CloseFig(save2.value))

\* Mutant: no try/except around the body.
GenerateVisualizationsNoCatch(r, f, p, canWrite, raisesOnEmpty, w) ==
    TryGenerate(r, f, p, canWrite, raisesOnEmpty, w)

\* except Exception: print(...) -- the failure is logged and not raised.
GenerateVisualizations(r, f, p, canWrite, raisesOnEmpty, w) ==
    Returned(TryGenerate(r, f, p, canWrite, raisesOnEmpty, w).value)

(***************************************************************************)
(* The handlers.  Flask answers 500 when an exception leaves a view.       *)
(***************************************************************************)
Response(status, view, body) == [status |-> status, view |-> view, body |-> body]
ServerError == Response(500, "error", <<>>)

\* A dict as the JSON object jsonify makes of it: key -> value, unordered.
JsonObject(items) ==
    [k \in {items[i].key : i \in 1..Len(items)} |->
        items[CHOOSE i \in 1..Len(items) :
                /\ items[i].key = k
                /\ \A j \in 1..Len(items) : items[j].key = k => j <= i].value]

Jsonify(body) == Response(200, "application/json", body)

\* render_template: the page made of the named template and its context.
RenderTemplate(name, context) == Response(200, name, context)

\* The context index() hands to the template.
IndexContext(predictions, metrics) ==
    LET top_teams == Iloc(predictions, 4)
    IN  [predictions |-> ToDictRecords(predictions),
         top_teams |-> ToDictRecords(top_teams),
         model_metrics |-> [name |-> metrics.best_model, accuracy |-> metrics.accuracy],
         feature_importance |-> metrics.feature_importance]

\* Mutant: the page is chosen by whether the points chart existed when the
\* request arrived, before the charts are regenerated.
IndexViewLooksBefore(f, p, canWrite, raisesOnEmpty, w) ==
    LET gv == GenerateVisualizations(0, f, p, canWrite, raisesOnEmpty, w)
        pred == LoadPredictions(f)
        met == LoadModelMetrics(p)
    IN  [world |-> gv.value,
         resp |-> RenderTemplate(IF w.files[TeamPoints].exists THEN "index.html"
                                 ELSE "about.html",
                                 IndexContext(pred.value, met.value))]

IndexView(f, p, canWrite, raisesOnEmpty, w) ==
    LET gv == GenerateVisualizations(0, f, p, canWrite, raisesOnEmpty, w)
        pred == LoadPredictions(f)
        met == LoadModelMetrics(p)
    IN  IF gv.raised \/ pred.raised \/ met.raised
        THEN [world |-> gv.value, resp |-> ServerError]
        ELSE [world |-> gv.value,
              resp |-> RenderTemplate("index.html", IndexContext(pred.value, met.value))]

\* Mutant: the API regenerates the charts before it answers.
ApiPredictionsViewRedraws(f, w) ==
    LET pred == LoadPredictions(f)
    IN  [world |-> GenerateVisualizations(0, f, pkl, writable, emptyPlotRaises, w).value,
         resp |-> Jsonify(ToDictRecords(pred.value))]

ApiPredictionsView(f, w) ==
    LET pred == LoadPredictions(f)
    IN  [world |-> w,
         resp |-> IF pred.raised THEN ServerError
                  ELSE Jsonify(ToDictRecords(pred.value))]

ApiMetricsView(p, w) ==
    LET met == LoadModelMetrics(p)
    IN  [world |-> w,
         resp |-> IF met.raised THEN ServerError
                  ELSE Jsonify([best_model |-> met.value.best_model,
                                accuracy |-> met.value.accuracy,
                                feature_importance |->
                                    JsonObject(met.value.feature_importance)])]

AboutView(w) == [world |-> w, resp |-> RenderTemplate("about.html", <<>>)]

(***************************************************************************)
(* The states the two input files and the static directory can be in.      *)
(***************************************************************************)
RankingHeader == <<"Team", "Result", "points">>

RowPool ==
    {<<"Gujarat Titans", "Winner", "10">>,
     <<"NA", "Other", "8">>}

Table(header, rows) == [kind |-> "table", header |-> header, rows |-> rows]

CsvStates ==
    {[kind |-> "absent", header |-> <<>>, rows |-> <<>>],
     [kind |-> "malformed", header |-> <<>>, rows |-> <<>>]}
    \cup {Table(RankingHeader, rows) : rows \in SeqsUpTo(RowPool, MaxRows)}
    \cup {Table(<<"Team", "Result">>, [i \in 1..k |-> <<"Mumbai Indians", "Runner-up">>]) :
             k \in 0..MaxRows}

Vector6 ==
    <<Float32(30), Float32(25), Float32(20), Float32(12), Float32(8), Float32(5)>>

Model(hasFI, fi) == [kind |-> "object", hasFI |-> hasFI, fi |-> fi]

PklStates ==
    {[kind |-> "absent", hasFI |-> FALSE, fi |-> <<>>],
     [kind |-> "corrupt", hasFI |-> FALSE, fi |-> <<>>],
     Model(FALSE, <<>>),
     Model(TRUE, Vector6),
     Model(TRUE, [Vector6 EXCEPT ![1] = Int64(1)]),
     Model(TRUE, [Vector6 EXCEPT ![3] = Str("n/a")]),
     Model(TRUE, SubSeq(Vector6, 1, 5)),
     Model(TRUE, Append(Vector6, Str("n/a"))),
     Model(TRUE, <<>>)}

\* A chart left by an earlier run of the program.
StaleImage == {Mark(0, "stale", <<>>)}

FilesStates ==
    {[n \in ChartFiles |-> NoFile], [n \in ChartFiles |-> WholeFile(StaleImage)]}

World == [staticDir |-> staticDir, files |-> files, gcf |-> gcf]

NoResponse == Response(0, "none", <<>>)

\* The server as it starts to take requests.  Imported by a WSGI server it has
\* run nothing yet, so static/ may be missing; started as a script it has made
\* static/ and tried to draw the charts once.  Either way the charts may be
\* there or not, and the two inputs are whatever was deployed.
Init ==
    /\ csv \in CsvStates
    /\ pkl \in PklStates
    /\ files \in FilesStates
    /\ staticDir \in BOOLEAN
    /\ (\E n \in ChartFiles : files[n].exists) => staticDir
    /\ writable \in BOOLEAN
    /\ emptyPlotRaises \in BOOLEAN
    /\ gcf = <<>>
    /\ op = "none"
    /\ resp = NoResponse
    /\ pc = <<>>
    /\ loc = <<>>

\* The server answers: the view's effects on the world and its response.
Answer(r) ==
    /\ staticDir' = r.world.staticDir
    /\ files' = r.world.files
    /\ gcf' = r.world.gcf
    /\ resp' = r.resp
    /\ UNCHANGED <<csv, pkl, writable, emptyPlotRaises, pc, loc>>

\* GET /
DashboardRequest ==
    /\ Len(gcf) < MaxOpenFigs
    /\ op' = "index"
    /\ Answer(IndexView(csv, pkl, writable, emptyPlotRaises, World))

\* GET /api/predictions
PredictionsRequest ==
    /\ op' = "api_predictions"
    /\ Answer(ApiPredictionsView(csv, World))

\* GET /api/metrics
MetricsRequest ==
    /\ op' = "api_metrics"
    /\ Answer(ApiMetricsView(pkl, World))

\* GET /about
AboutRequest ==
    /\ op' = "about"
    /\ Answer(AboutView(World))

Next ==
    \/ DashboardRequest
    \/ PredictionsRequest
    \/ MetricsRequest
    \/ AboutRequest

Spec == Init /\ [][Next]_vars

(***************************************************************************)
(* The threaded server: NReq Dashboard requests, each in its own thread,   *)
(* run index() one library call at a time over the same static/, the same  *)
(* two chart paths and the same pyplot registry.  No lock is taken.        *)
(***************************************************************************)
Requests == 1..NReq

At(label, chart) == [at |-> label, chart |-> chart]

NoLocals == [pred |-> DataFrame(<<>>, <<>>, 0), importance |-> <<>>, image |-> {}]

ChartFile(chart) == IF chart = 1 THEN TeamPoints ELSE FeatureImportance

InitConc ==
    /\ csv = Table(RankingHeader, <<<<"Gujarat Titans", "Winner", "10">>>>)
    /\ pkl = [kind |-> "absent", hasFI |-> FALSE, fi |-> <<>>]
    /\ files \in FilesStates
    /\ staticDir = \E n \in ChartFiles : files[n].exists
    /\ writable = TRUE
    /\ emptyPlotRaises = FALSE
    /\ gcf = <<>>
    /\ op = "none"
    /\ resp = NoResponse
    /\ pc = [r \in Requests |-> At("exists", 1)]
    /\ loc = [r \in Requests |-> NoLocals]

Goto(r, label, chart) == pc' = [pc EXCEPT ![r] = At(label, chart)]

\* An exception inside the try block: logged, and index() goes on.
Caught(r) == Goto(r, "view", 0)

\* if not os.path.exists('static'):
CheckStatic(r) ==
    /\ pc[r].at = "exists"
    /\ IF staticDir THEN Goto(r, "load", 1) ELSE Goto(r, "makedirs", 1)
    /\ UNCHANGED <<csv, pkl, staticDir, writable, files, emptyPlotRaises, gcf, op, resp, loc>>

\* os.makedirs('static'): FileExistsError when another thread made it since.
MakeDirs(r) ==
    /\ pc[r].at = "makedirs"
    /\ IF staticDir \/ ~writable
       THEN Caught(r) /\ UNCHANGED staticDir
       ELSE Goto(r, "load", 1) /\ staticDir' = TRUE
    /\ UNCHANGED <<csv, pkl, writable, files, emptyPlotRaises, gcf, op, resp, loc>>

\* predictions = load_predictions()  /  metrics = load_model_metrics()
Load(r) ==
    /\ pc[r].at = "load"
    /\ loc' = IF pc[r].chart = 1
              THEN [loc EXCEPT ![r].pred = LoadPredictions(csv).value]
              ELSE [loc EXCEPT ![r].importance =
                                   LoadModelMetrics(pkl).value.feature_importance]
    /\ Goto(r, "figure", pc[r].chart)
    /\ UNCHANGED <<csv, pkl, staticDir, writable, files, emptyPlotRaises, gcf, op, resp>>

\* plt.figure(figsize=...)
Figure(r) ==
    /\ pc[r].at = "figure"
    /\ gcf' = PltFigure(gcf)
    /\ Goto(r, "barplot", pc[r].chart)
    /\ UNCHANGED <<csv, pkl, staticDir, writable, files, emptyPlotRaises, op, resp, loc>>

\* sns.barplot(...): drawn on the figure that is active now.
Barplot(r) ==
    /\ pc[r].at = "barplot"
    /\ IF pc[r].chart = 1
       THEN IF PointsBarplotRaises(loc[r].pred, emptyPlotRaises)
            THEN Caught(r) /\ UNCHANGED gcf
            ELSE /\ gcf' = PltDraw(gcf, Mark(r, "bars:points", PointsBars(loc[r].pred)))
                 /\ Goto(r, "title", 1)
       ELSE IF ImportanceBarplotRaises(loc[r].importance, emptyPlotRaises)
            THEN Caught(r) /\ UNCHANGED gcf
            ELSE /\ gcf' = PltDraw(gcf, Mark(r, "bars:importance",
                                             ImportanceBars(loc[r].importance)))
                 /\ Goto(r, "title", 2)
    /\ UNCHANGED <<csv, pkl, staticDir, writable, files, emptyPlotRaises, op, resp, loc>>

\* plt.title(...)
Title(r) ==
    /\ pc[r].at = "title"
    /\ gcf' = PltDraw(gcf, Mark(r, IF pc[r].chart = 1 THEN PointsTitle
                                   ELSE ImportanceTitle, <<>>))
    /\ IF pc[r].chart = 1 THEN Goto(r, "xticks", 1) ELSE Goto(r, "layout", 2)
    /\ UNCHANGED <<csv, pkl, staticDir, writable, files, emptyPlotRaises, op, resp, loc>>

\* plt.xticks(rotation=45, ha='right')
Xticks(r) ==
    /\ pc[r].at = "xticks"
    /\ gcf' = PltDraw(gcf, Mark(r, "xticks:rotation=45", <<>>))
    /\ Goto(r, "layout", pc[r].chart)
    /\ UNCHANGED <<csv, pkl, staticDir, writable, files, emptyPlotRaises, op, resp, loc>>

\* plt.tight_layout()
TightLayout(r) ==
    /\ pc[r].at = "layout"
    /\ gcf' = PltGcf(gcf)
    /\ Goto(r, "savefig", pc[r].chart)
    /\ UNCHANGED <<csv, pkl, staticDir, writable, files, emptyPlotRaises, op, resp, loc>>

\* plt.savefig(path), first half: the active figure is rendered and the path
\* opened for writing, which empties the file.
SaveFigOpen(r) ==
    /\ pc[r].at = "savefig"
    /\ IF ~staticDir \/ ~writable
       THEN Caught(r) /\ UNCHANGED <<gcf, files, loc>>
       ELSE /\ loc' = [loc EXCEPT ![r].image = PltRender(gcf)]
            /\ gcf' = PltGcf(gcf)
            /\ files' = [files EXCEPT ![ChartFile(pc[r].chart)] = Truncated]
            /\ Goto(r, "write1", pc[r].chart)
    /\ UNCHANGED <<csv, pkl, staticDir, writable, emptyPlotRaises, op, resp>>

\* plt.savefig(path), second half: the image written chunk by chunk, each
\* thread at its own offset in the file.
SaveFigWrite(r) ==
    /\ pc[r].at \in {"write1", "write2"}
    /\ LET c == IF pc[r].at = "write1" THEN 1 ELSE 2
       IN  files' = [files EXCEPT ![ChartFile(pc[r].chart)] =
                        [exists |-> TRUE,
                         chunks |-> [@.chunks EXCEPT ![c] = Chunk(loc[r].image)]]]
    /\ IF pc[r].at = "write1" THEN Goto(r, "write2", pc[r].chart)
       ELSE Goto(r, "close", pc[r].chart)
    /\ UNCHANGED <<csv, pkl, staticDir, writable, emptyPlotRaises, gcf, op, resp, loc>>

\* plt.close(): the figure that is active now.
Close(r) ==
    /\ pc[r].at = "close"
    /\ gcf' = PltClose(gcf)
    /\ IF pc[r].chart = 1 THEN Goto(r, "load", 2) ELSE Goto(r, "view", 0)
    /\ UNCHANGED <<csv, pkl, staticDir, writable, files, emptyPlotRaises, op, resp, loc>>

\* The rest of index(): both sources loaded again and the page rendered.
Render(r) ==
    /\ pc[r].at = "view"
    /\ op' = "index"
    /\ resp' = RenderTemplate("index.html",
                   IndexContext(LoadPredictions(csv).value, LoadModelMetrics(pkl).value))
    /\ Goto(r, "done", 0)
    /\ UNCHANGED <<csv, pkl, staticDir, writable, files, emptyPlotRaises, gcf, loc>>

NextConc ==
    \E r \in Requests :
        \/ CheckStatic(r)
        \/ MakeDirs(r)
        \/ Load(r)
        \/ Figure(r)
        \/ Barplot(r)
        \/ Title(r)
        \/ Xticks(r)
        \/ TightLayout(r)
        \/ SaveFigOpen(r)
        \/ SaveFigWrite(r)
        \/ Close(r)
        \/ Render(r)

SpecConc == InitConc /\ [][NextConc]_vars

AllDone == \A r \in Requests : pc[r].at = "done"

\* The file holds one whole chart of the kind, drawn by one request alone.
PointsChartOfOne(f) ==
    /\ IsWhole(f)
    /\ \E r \in Requests : f.chunks[1].image = PointsChart(r, LoadPredictions(csv).value)
ImportanceChartOfOne(f) ==
    /\ IsWhole(f)
    /\ \E r \in Requests :
          f.chunks[1].image =
              ImportanceChart(r, LoadModelMetrics(pkl).value.feature_importance)

\* C5 as stated: when concurrent Dashboard requests have all finished, each of
\* the two files holds one complete chart of its own kind made by a single
\* request: last writer wins, nothing mixed, nothing partial.
C5_LastWriterWins ==
    AllDone => /\ PointsChartOfOne(files[TeamPoints])
               /\ ImportanceChartOfOne(files[FeatureImportance])

(***************************************************************************)
(* Properties of the sequential server (Spec).                             *)
(***************************************************************************)
BothChartsExist == \A n \in ChartFiles : files[n].exists

\* The ranking data the renderer can draw: the fallback frame, or a table that
\* has the columns Team and points, integer points, and a row naming a team.
RankingDrawable(f) ==
    \/ f.kind # "table"
    \/ /\ "Team" \in Range(f.header)
       /\ "points" \in Range(f.header)
       /\ \A i \in 1..Len(f.rows) : IsNumeral(f.rows[i][Index(f.header, "points")])
       /\ \E i \in 1..Len(f.rows) : f.rows[i][Index(f.header, "Team")] \notin NaValues

\* The artifact yields at least one importance value: the fallback mapping, or
\* a loaded vector that is not empty.
ImportanceDrawable(p) ==
    \/ p.kind # "object"
    \/ ~p.hasFI
    \/ Len(p.fi) > 0

\* C1 as stated: after the Dashboard handler both chart files exist, whatever
\* the two input files hold (read with static/ creatable and writable).
C1_BothChartsAlways == (op = "index" /\ writable) => BothChartsExist

\* C1 amended: after the Dashboard handler both chart files exist whenever
\* static/ can be created and written, the ranking data is drawable (fallback,
\* or a table with Team and integer points and a named team) and the artifact
\* yields at least one importance value.
C1_BothChartsWhenDrawable ==
    (op = "index" /\ writable /\ RankingDrawable(csv) /\ ImportanceDrawable(pkl))
        => BothChartsExist /\ staticDir

\* Reached: the Dashboard answered on fallback data and made both charts in a
\* static/ that did not exist before.
C1_Witness ==
    /\ op = "index"
    /\ csv.kind = "absent"
    /\ pkl.kind = "absent"
    /\ files[TeamPoints] = WholeFile(PointsChart(0, FallbackPredictions))
    /\ files[FeatureImportance] = WholeFile(ImportanceChart(0, FallbackImportance))

\* The fixed fallback ranking, written out.
C2_Fallback ==
    <<[Team |-> Str("Gujarat Titans"), Result |-> Str("Winner"), points |-> Int64(10)],
      [Team |-> Str("Royal Challengers Bangalore"), Result |-> Str("Runner-up"), points |-> Int64(8)],
      [Team |-> Str("Punjab Kings"), Result |-> Str("Second Runner-up"), points |-> Int64(8)],
      [Team |-> Str("Mumbai Indians"), Result |-> Str("Eliminator"), points |-> Int64(6)],
      [Team |-> Str("Kolkata Knight Riders"), Result |-> Str("Other"), points |-> Int64(6)],
      [Team |-> Str("Rajasthan Royals"), Result |-> Str("Other"), points |-> Int64(2)],
      [Team |-> Str("Lucknow Super Giants"), Result |-> Str("Other"), points |-> Int64(2)],
      [Team |-> Str("Delhi Capitals"), Result |-> Str("Other"), points |-> Int64(2)],
      [Team |-> Str("Chennai Super Kings"), Result |-> Str("Other"), points |-> Int64(0)],
      [Team |-> Str("Sunrisers Hyderabad"), Result |-> Str("Other"), points |-> Int64(0)]>>

\* C2: when the ranking source is missing or malformed, load_predictions does
\* not raise and GET /api/predictions returns exactly the ten fallback records
\* in their fixed order.
C2_FallbackPredictions ==
    csv.kind \in {"absent", "malformed"} =>
        /\ ~LoadPredictions(csv).raised
        /\ ToDictRecords(LoadPredictions(csv).value) = C2_Fallback
        /\ op = "api_predictions" => resp = Response(200, "application/json", C2_Fallback)

\* Reached: GET /api/predictions answered over a malformed ranking source.
C2_Witness == op = "api_predictions" /\ csv.kind = "malformed" /\ Len(resp.body) = 10

\* The fixed fallback importance mapping, in hundredths.
C3_Fallback ==
    [batting_strength |-> Float64(35), bowling_strength |-> Float64(25),
     consistency |-> Float64(15), historical_win_rate |-> Float64(10),
     head_to_head_win_rate |-> Float64(10), venue_win_rate |-> Float64(5)]

\* The artifact cannot be loaded, or has no usable importance vector.
C3_Fails(p) ==
    \/ p.kind \in {"absent", "corrupt"}
    \/ ~p.hasFI
    \/ \E i \in 1..Min(6, Len(p.fi)) : p.fi[i].t = "str" /\ ~IsNumeral(p.fi[i].s)

\* C3: when loading the artifact or extracting its importance vector fails,
\* load_model_metrics does not raise and GET /api/metrics returns XGBoost,
\* 97.60 and the fixed fallback mapping.
C3_FallbackMetrics ==
    C3_Fails(pkl) =>
        /\ ~LoadModelMetrics(pkl).raised
        /\ op = "api_metrics" =>
              resp = Response(200, "application/json",
                              [best_model |-> "XGBoost", accuracy |-> Float64(9760),
                               feature_importance |-> C3_Fallback])

\* Reached: GET /api/metrics answered over an artifact whose vector holds an
\* element that is no number.
C3_Witness ==
    /\ op = "api_metrics"
    /\ pkl.kind = "object" /\ pkl.hasFI /\ Len(pkl.fi) = 6 /\ pkl.fi[3].t = "str"
    /\ resp.body.feature_importance["consistency"] = Float64(15)

\* C4: every handler answers 200, whatever the two input files hold and
\* whether or not chart rendering fails.
C4_Always200 == op # "none" => resp.status = 200

\* Reached: the Dashboard answered 200 with its page although rendering failed
\* and left no chart file.
C4_Witness ==
    /\ op = "index"
    /\ resp.status = 200 /\ resp.view = "index.html"
    /\ ~files[TeamPoints].exists /\ ~files[FeatureImportance].exists
    /\ Len(resp.body.predictions) > 0

\* C6: the Dashboard's top_teams are the first min(4, n) records, in order, of
\* what GET /api/predictions returns in the same state, and its ranking table
\* is that whole sequence.
C6_TopTeamsArePrefix ==
    op = "index" =>
        LET api == ApiPredictionsView(csv, World).resp.body
        IN  /\ resp.body.predictions = api
            /\ Len(resp.body.top_teams) = Min(4, Len(api))
            /\ \A i \in 1..Min(4, Len(api)) : resp.body.top_teams[i] = api[i]

\* Reached: the Dashboard answered over a five-row table whose fifth row
\* differs from its fourth, and once over a table of fewer than four rows.
C6_Witness ==
    /\ op = "index"
    /\ csv.kind = "table" /\ Len(csv.rows) = 5 /\ csv.rows[5] # csv.rows[4]
    /\ Len(resp.body.top_teams) = 4 /\ Len(resp.body.predictions) = 5

\* C7: the three handlers other than the Dashboard leave static/ and both
\* chart files as they were, and no handler changes the ranking source or the
\* model artifact.
C7_OnlyDashboardWrites ==
    [][/\ op' \in {"api_predictions", "api_metrics", "about"}
            => (staticDir' = staticDir /\ files' = files)
       /\ csv' = csv /\ pkl' = pkl]_vars

\* Reached: an API answered after the Dashboard had written fresh charts, which
\* are still there.
C7_Witness ==
    /\ op = "api_predictions"
    /\ IsWhole(files[TeamPoints]) /\ files[TeamPoints] # WholeFile(StaleImage)
    /\ IsWhole(files[FeatureImportance])

\* A valid ranking source: the three columns, a team text, a result category
\* and an integer in every row.
ResultCategories == {"Winner", "Runner-up", "Second Runner-up", "Eliminator", "Other"}
ValidSource(f) ==
    /\ f.kind = "table"
    /\ f.header = <<"Team", "Result", "points">>
    /\ \A i \in 1..Len(f.rows) :
          /\ f.rows[i][1] # ""
          /\ f.rows[i][2] \in ResultCategories
          /\ IsNumeral(f.rows[i][3])

\* C8 as stated: over a valid ranking source of n rows GET /api/predictions
\* returns n records in row order, the i-th holding the i-th row's team text,
\* result category and integer points.
C8_RoundTrip ==
    (op = "api_predictions" /\ ValidSource(csv)) =>
        /\ resp.status = 200
        /\ Len(resp.body) = Len(csv.rows)
        /\ \A i \in 1..Len(csv.rows) :
              resp.body[i] = [Team |-> Str(csv.rows[i][1]),
                              Result |-> Str(csv.rows[i][2]),
                              points |-> Int64(IntOf(csv.rows[i][3]))]

\* C9: the metrics record has exactly the keys best_model, accuracy and
\* feature_importance, with XGBoost and 97.60, on both paths; when the artifact
\* loads with a vector of six numbers the mapping has exactly the six feature
\* names and the i-th name maps to the i-th element.
C9_Names ==
    <<"batting_strength", "bowling_strength", "consistency",
      "historical_win_rate", "head_to_head_win_rate", "venue_win_rate">>
C9_Loads6(p) ==
    /\ p.kind = "object" /\ p.hasFI /\ Len(p.fi) = 6
    /\ \A i \in 1..6 : p.fi[i].t \in {"float", "float32", "int"}
C9_ValueOf(x) == IF x.t = "int" THEN x.n * 100 ELSE x.n
C9_MetricsSchema ==
    /\ DOMAIN LoadModelMetrics(pkl).value = {"best_model", "accuracy", "feature_importance"}
    /\ op = "api_metrics" =>
          /\ DOMAIN resp.body = {"best_model", "accuracy", "feature_importance"}
          /\ resp.body.best_model = "XGBoost"
          /\ resp.body.accuracy = Float64(9760)
          /\ C9_Loads6(pkl) =>
                /\ DOMAIN resp.body.feature_importance = Range(C9_Names)
                /\ \A i \in 1..6 :
                      /\ resp.body.feature_importance[C9_Names[i]].t = "float"
                      /\ resp.body.feature_importance[C9_Names[i]].n = C9_ValueOf(pkl.fi[i])

\* Reached: GET /api/metrics answered over an artifact with six numbers, one of
\* them an integer.
C9_Witness ==
    /\ op = "api_metrics"
    /\ C9_Loads6(pkl) /\ pkl.fi[1].t = "int"
    /\ resp.body.feature_importance["head_to_head_win_rate"] = Float64(8)

\* C10: the same handler answering twice in a row, the input files unchanged,
\* gives the same response, and leaves static/ and the chart files as the
\* first answer left them, whatever the first left in memory.
C10_Idempotent ==
    [][(op # "none" /\ op' = op)
          => (resp' = resp /\ files' = files /\ staticDir' = staticDir)]_vars

\* Reached: the Dashboard has answered twice, each time leaving a figure
\* registered in pyplot, so the second ran on memory the first had written.
C10_Witness ==
    /\ op = "index"
    /\ Len(gcf) = 2
    /\ resp.status = 200

=============================================================================
